---------------------------- MODULE Spec2Model ----------------------------
(***************************************************************************)
(* State-machine model of the browser face-tagging demo:                   *)
(*   EventFaceDetection        (src/unnamed/part_000)                      *)
(*   EventFaceDetectionWithAPI (src/api-integration.js)                    *)
(* One page, one detector object.  Every handler runs to its next await in *)
(* one step; a step of the model is one such piece.                        *)
(*                                                                         *)
(* Numbers.  A face descriptor is modelled as a one-dimensional vector, so *)
(* faceapi.euclideanDistance(a, b) is |a - b|.  Descriptors and distances  *)
(* are counted in hundredths: 60 is the distance 0.6 and 100 the distance  *)
(* 1, so that Math.round((1 - d) * 100) is exactly 100 - d.                *)
(***************************************************************************)
EXTENDS Integers, Sequences, FiniteSets, TLC

\* ------------------------------------------------------------ bounds
MaxCoord == 2
MaxUsers == 3
MaxFiles == 2
NumPhotos == 2
MaxNow == 2
MaxApiUsers == 1

\* ------------------------------------------------------- program constants
Threshold == 60
Sentinel == 100
NumNets == 3
NoUser == 0
NoName == "null"
NoFace == -1

\* ------------------------------------------------------------ input sets
\* descriptors of the registries and queries of the matcher specification
Descriptors == {20 * k : k \in 0..MaxCoord}
Queries == {20 * k : k \in 0..(2 * MaxCoord + 2)}
Names == {"ann", "bob"}
\* the people who register: the detector finds ann's face (0) in a photo of
\* ann, bob's face (40) in a photo of bob, or no face at all
FaceOf(name) == IF name = "ann" THEN 0 ELSE 40
\* the values Date.now() can return
Timestamps == 1..MaxNow
RunIds == {1, 2}
\* the event photos a user can select: photo 1 shows no face, photo p > 1
\* shows p faces, the j-th of them with descriptor 60 * (j - 1)
Photos == 1..NumPhotos
PhotoFaces(p) == IF p = 1 THEN <<>> ELSE [j \in 1..p |-> 60 * (j - 1)]
\* the selections of the #eventPhotos input (an empty selection included)
Selections == UNION {[1..n -> Photos] : n \in 0..MaxFiles}
\* the user lists GET /events/{id}/users can answer with
ApiUser == [id : Timestamps, name : Names, profilePhoto : BOOLEAN]
ApiAnswers == UNION {[1..n -> ApiUser] : n \in 0..MaxApiUsers}

VARIABLES
    netsLoaded,        \* how many of the three faceapi.nets bundles are loaded
    initPc,            \* initializeFaceAPI: "loading", "done" or "failed"
    isModelLoaded,     \* this.isModelLoaded
    registeredUsers,   \* this.registeredUsers: a Map, kept in insertion order
    lastResults,       \* this.lastResults: <<>> while undefined, else <<results>>
    status,            \* the banner showStatus wrote last
    usersDom,          \* the user cards in #registeredUsers
    resultsDom,        \* the per-user blocks in #results
    reg,               \* the registerUser call in flight
    runs,              \* the processEventPhotos calls in flight
    eventPhotos,       \* the files selected in the #eventPhotos input
    alert,             \* the alert() dialog that is open ("none": no dialog)
    currentEventId,    \* this.currentEventId (0 while null)
    load,              \* the loadEventUsers call in flight
    query,             \* argument of the latest direct findBestMatch call
    match,             \* its return value
    removed,           \* history: the ids removeUser has been called with
    upload,            \* the uploadToSocialApp call in flight
    apiCalls           \* history: the SocialEventAPI calls of the latest upload

modelVars == <<netsLoaded, initPc, isModelLoaded>>
apiVars == <<currentEventId, load>>
matchVars == <<query, match>>
uploadVars == <<upload, apiCalls>>

vars == <<netsLoaded, initPc, isModelLoaded, registeredUsers, lastResults, status,
          usersDom, resultsDom, reg, runs, eventPhotos, alert, currentEventId, load,
          query, match, removed, upload, apiCalls>>

\* ------------------------------------------------------------ helpers
Abs(x) == IF x < 0 THEN -x ELSE x

euclideanDistance(a, b) == Abs(a - b)

Range(s) == {s[i] : i \in 1..Len(s)}

Ids(users) == {users[i].id : i \in 1..Len(users)}

\* Map.prototype.set: an existing key keeps its place, a new key goes last
MapSet(users, u) ==
    IF u.id \in Ids(users)
    THEN [i \in 1..Len(users) |-> IF users[i].id = u.id THEN u ELSE users[i]]
    ELSE Append(users, u)

MapDeleteMut(users, id) == users

\* Map.prototype.delete
MapDelete(users, id) == SelectSeq(users, LAMBDA u : u.id # id)

\* ------------------------------------------------------------ findBestMatch
CloserMut(distance, best) == distance <= best.distance

\* the comparison that replaces the best match so far
Closer(distance, best) == distance < best.distance

NoMatchMut == [distance |-> 0, userId |-> NoUser, userName |-> NoName]

\* the match findBestMatch starts from, and returns for an empty registry
NoMatch == [distance |-> Sentinel, userId |-> NoUser, userName |-> NoName]

RECURSIVE ScanUsers(_, _, _, _)
ScanUsers(descriptor, users, i, bestMatch) ==
    IF i > Len(users) THEN bestMatch
    ELSE LET distance == euclideanDistance(descriptor, users[i].descriptor)
         IN  ScanUsers(descriptor, users, i + 1,
                 IF Closer(distance, bestMatch)
                 THEN [distance |-> distance, userId |-> users[i].id,
                       userName |-> users[i].name]
                 ELSE bestMatch)

findBestMatch(descriptor, users) == ScanUsers(descriptor, users, 1, NoMatch)

\* ------------------------------------------------------------ rendering
\* displayRegisteredUsers: one card per entry of the registry
displayRegisteredUsers(users) ==
    [i \in 1..Len(users) |-> [id |-> users[i].id, name |-> users[i].name]]

\* displayResults skips a userPhotos key that is no longer in the registry
Rendered(userId, users) == userId \in Ids(users)

\* displayResults, #results: one block per userPhotos key that is rendered
displayResults(results, users) ==
    LET kept == SelectSeq(results.userPhotos, LAMBDA e : Rendered(e.userId, users))
    IN  [i \in 1..Len(kept) |->
            [userId |-> kept[i].userId, count |-> Len(kept[i].photos)]]

\* ------------------------------------------------------------ initial state
IdleReg == [pc |-> "idle", name |-> ""]

PendingReg == [pc |-> "pending", name |-> ""]

IdleLoad == [pc |-> "idle", users |-> <<>>]

IdleUpload == [pc |-> "idle", todo |-> <<>>]

EmptyResults ==
    [userPhotos |-> <<>>, unrecognizedFaces |-> <<>>, organizerPhotos |-> <<>>]

IdleRun == [pc |-> "idle", files |-> <<>>, i |-> 0, results |-> EmptyResults]

\* a call whose loadImage promise never settles: its locals are never read again
PendingRun == [pc |-> "pending", files |-> <<>>, i |-> 0, results |-> EmptyResults]

Init ==
    /\ netsLoaded = 0
    /\ initPc = "loading"
    /\ isModelLoaded = FALSE
    /\ registeredUsers = <<>>
    /\ lastResults = <<>>
    /\ status = "none"
    /\ usersDom = <<>>
    /\ resultsDom = <<>>
    /\ reg = IdleReg
    /\ runs = [r \in RunIds |-> IdleRun]
    /\ eventPhotos = <<>>
    /\ alert = "none"
    /\ currentEventId = 0
    /\ load = IdleLoad
    /\ query = NoFace
    /\ match = NoMatch
    /\ removed = {}
    /\ upload = IdleUpload
    /\ apiCalls = <<>>

\* ------------------------------------------------------------ initializeFaceAPI
\* one loadFromUri resolves; after the third, isModelLoaded is set
LoadNet ==
    /\ alert = "none"
    /\ initPc = "loading"
    /\ netsLoaded' = netsLoaded + 1
    /\ IF netsLoaded' = NumNets
       THEN /\ initPc' = "done"
            /\ isModelLoaded' = TRUE
            /\ status' = "modelsLoaded"
       ELSE UNCHANGED <<initPc, isModelLoaded, status>>
    /\ UNCHANGED <<registeredUsers, lastResults, usersDom, resultsDom, reg, runs,
                   alert, apiVars, eventPhotos, matchVars, removed, uploadVars>>

\* one loadFromUri rejects: the catch block shows the error banner
LoadNetFails ==
    /\ alert = "none"
    /\ initPc = "loading"
    /\ initPc' = "failed"
    /\ status' = "modelsError"
    /\ UNCHANGED <<netsLoaded, isModelLoaded, registeredUsers, lastResults, usersDom,
                   resultsDom, reg, runs, alert, apiVars, eventPhotos,
                   matchVars, removed, uploadVars>>

\* ------------------------------------------------------------ alert
\* alert() blocks the page until the user closes the dialog
DismissAlert ==
    /\ alert # "none"
    /\ alert' = "none"
    /\ UNCHANGED <<modelVars, registeredUsers, lastResults, status, usersDom,
                   resultsDom, reg, runs, apiVars, eventPhotos, matchVars,
                   removed, uploadVars>>

\* ------------------------------------------------------------ registerUser
RegisterGuardMut(loaded) == TRUE

\* the isModelLoaded guard of registerUser
RegisterGuard(loaded) == loaded

\* the click: both guards, then loadImage(file) is awaited
RegisterUserCall(userName, hasFile) ==
    /\ alert = "none"
    /\ reg.pc \in {"idle", "pending"}
    /\ IF userName = "" \/ ~hasFile
       THEN /\ alert' = "enterNameAndPhoto"
            /\ UNCHANGED reg
       ELSE IF ~RegisterGuard(isModelLoaded)
       THEN /\ alert' = "modelsLoading"
            /\ UNCHANGED reg
       ELSE /\ reg' = [pc |-> "loadImage", name |-> userName]
            /\ UNCHANGED alert
    /\ UNCHANGED <<modelVars, registeredUsers, lastResults, status, usersDom,
                   resultsDom, runs, apiVars, eventPhotos, matchVars, removed,
                   uploadVars>>

\* img.onload: loadImage resolves and detectSingleFace is called
RegImageLoaded ==
    /\ alert = "none"
    /\ reg.pc = "loadImage"
    /\ reg' = [reg EXCEPT !.pc = "detect"]
    /\ UNCHANGED <<modelVars, registeredUsers, lastResults, status, usersDom,
                   resultsDom, runs, alert, apiVars, eventPhotos, matchVars,
                   removed, uploadVars>>

\* the image does not decode: loadImage sets no onerror, the promise never settles
RegImageError ==
    /\ alert = "none"
    /\ reg.pc = "loadImage"
    /\ reg' = PendingReg
    /\ UNCHANGED <<modelVars, registeredUsers, lastResults, status, usersDom,
                   resultsDom, runs, alert, apiVars, eventPhotos, matchVars,
                   removed, uploadVars>>

\* the detection chain rejects: the catch block alerts
RegDetectThrows ==
    /\ alert = "none"
    /\ reg.pc = "detect"
    /\ reg' = IdleReg
    /\ alert' = "registerError"
    /\ UNCHANGED <<modelVars, registeredUsers, lastResults, status, usersDom,
                   resultsDom, runs, apiVars, eventPhotos, matchVars, removed,
                   uploadVars>>

\* the detection chain resolves: no face, or the user is stored under the
\* timestamp t and the registry is rendered
RegDetected(face, t) ==
    /\ alert = "none"
    /\ reg.pc = "detect"
    /\ netsLoaded = NumNets
    /\ reg' = IdleReg
    /\ IF face = NoFace
       THEN /\ alert' = "noFace"
            /\ UNCHANGED <<registeredUsers, usersDom, status>>
       ELSE /\ registeredUsers' = MapSet(registeredUsers,
                    [id |-> t, name |-> reg.name, descriptor |-> face,
                     photo |-> face])
            /\ usersDom' = displayRegisteredUsers(registeredUsers')
            /\ status' = "registered"
            /\ UNCHANGED alert
    /\ UNCHANGED <<modelVars, lastResults, resultsDom, runs, apiVars, eventPhotos,
                   matchVars, removed, uploadVars>>

\* ------------------------------------------------------------ removeUser
\* the Remove button of a rendered card
removeUser(userId) ==
    /\ alert = "none"
    /\ userId \in {usersDom[i].id : i \in 1..Len(usersDom)}
    /\ registeredUsers' = MapDelete(registeredUsers, userId)
    /\ usersDom' = displayRegisteredUsers(registeredUsers')
    /\ removed' = removed \cup {userId}
    /\ UNCHANGED <<modelVars, lastResults, status, resultsDom, reg, runs, alert,
                   apiVars, eventPhotos, matchVars, uploadVars>>

\* ------------------------------------------------------------ processPhoto
RecognizedMut(distance) == distance <= Threshold

\* the acceptance test of processPhoto
Recognized(distance) == distance < Threshold

\* Math.round((1 - distance) * 100), distances being hundredths
Confidence(distance) == 100 - distance

\* the loop over the detections of one photo: detection k is matched against
\* the registry and pushed on one of the two lists.  The loop's only await
\* (extractFaceImage) is of a settled promise, so no handler runs inside it.
RECURSIVE ClassifyAll(_, _, _, _)
ClassifyAll(dets, k, users, lists) ==
    IF k > Len(dets) THEN lists
    ELSE LET m == findBestMatch(dets[k], users)
         IN  ClassifyAll(dets, k + 1, users,
                 IF Recognized(m.distance)
                 THEN [lists EXCEPT !.recognizedFaces = Append(@,
                          [userId |-> m.userId, userName |-> m.userName,
                           confidence |-> Confidence(m.distance), box |-> k])]
                 ELSE [lists EXCEPT !.unrecognizedFaces = Append(@,
                          [faceImage |-> k, box |-> k])])

NoFaces == [recognizedFaces |-> <<>>, unrecognizedFaces |-> <<>>]

\* processPhoto, from the detector's answer to the returned lists
processPhoto(dets, users) == ClassifyAll(dets, 1, users, NoFaces)

\* ------------------------------------------------------------ processEventPhotos
\* recognizedFaces.forEach: append the photo under the face's user id, creating
\* the key (at the end of the Map) when it is new
RECURSIVE AddRecognized(_, _, _, _)
AddRecognized(userPhotos, faces, j, photo) ==
    IF j > Len(faces) THEN userPhotos
    ELSE LET face == faces[j]
             entry == [photo |-> photo, confidence |-> face.confidence,
                       faceBox |-> face.box]
             next == IF \E e \in Range(userPhotos) : e.userId = face.userId
                     THEN [n \in 1..Len(userPhotos) |->
                              IF userPhotos[n].userId = face.userId
                              THEN [userPhotos[n] EXCEPT !.photos = Append(@, entry)]
                              ELSE userPhotos[n]]
                     ELSE Append(userPhotos,
                              [userId |-> face.userId, photos |-> <<entry>>])
         IN  AddRecognized(next, faces, j + 1, photo)

HasFacesMut(nRec, nUnrec) == nRec > 0

\* the condition for the organizer folder
HasFaces(nRec, nUnrec) == nRec > 0 \/ nUnrec > 0

TotalFacesMut(nRec, nUnrec) == nRec

\* totalFaces of an organizer entry
TotalFaces(nRec, nUnrec) == nRec + nUnrec

\* "Organize results" for photo i, whose processPhoto returned photoResult
Organize(run, photoResult) ==
    LET photo == <<run.i, run.files[run.i]>>
        rec == photoResult.recognizedFaces
        unrec == photoResult.unrecognizedFaces
        res == run.results
    IN  [userPhotos |-> AddRecognized(res.userPhotos, rec, 1, photo),
         unrecognizedFaces |->
             res.unrecognizedFaces \o
                 [j \in 1..Len(unrec) |->
                     [photo |-> photo, faceImage |-> unrec[j].faceImage,
                      box |-> unrec[j].box]],
         organizerPhotos |->
             IF HasFaces(Len(rec), Len(unrec))
             THEN Append(res.organizerPhotos,
                      [photo |-> photo,
                       totalFaces |-> TotalFaces(Len(rec), Len(unrec))])
             ELSE res.organizerPhotos]

\* the lowest free slot takes the next call
FreeRun(r) ==
    /\ runs[r].pc \in {"idle", "pending"}
    /\ \A q \in RunIds : q < r => runs[q].pc \notin {"idle", "pending"}

\* the isModelLoaded guard of processEventPhotos
ProcessGuard(loaded) == loaded

FreshResultsMut(last) == IF Len(last) = 0 THEN EmptyResults ELSE last[1]

\* the results object a call starts from
FreshResults(last) == EmptyResults

\* the click, with files selected in the input: three guards, then the first
\* photo's loadImage is awaited
processEventPhotosCall(r, files) ==
    /\ alert = "none"
    /\ FreeRun(r)
    /\ eventPhotos' = files
    /\ IF Len(files) = 0
       THEN /\ alert' = "selectPhotos"
            /\ UNCHANGED <<runs, status>>
       ELSE IF ~ProcessGuard(isModelLoaded)
       THEN /\ alert' = "modelsLoading"
            /\ UNCHANGED <<runs, status>>
       ELSE IF Len(registeredUsers) = 0
       THEN /\ alert' = "registerFirst"
            /\ UNCHANGED <<runs, status>>
       ELSE /\ status' = "processingPhoto"
            /\ runs' = [runs EXCEPT ![r] =
                           [pc |-> "loadImage", files |-> files, i |-> 1,
                            results |-> FreshResults(lastResults)]]
            /\ UNCHANGED alert
    /\ UNCHANGED <<modelVars, registeredUsers, lastResults, usersDom, resultsDom, reg,
                   apiVars, matchVars, removed, uploadVars>>

\* img.onload: loadImage resolves and detectAllFaces is called
RunImageLoaded(r) ==
    /\ alert = "none"
    /\ runs[r].pc = "loadImage"
    /\ runs' = [runs EXCEPT ![r].pc = "detect"]
    /\ UNCHANGED <<modelVars, registeredUsers, lastResults, status, usersDom,
                   resultsDom, reg, alert, apiVars, eventPhotos, matchVars,
                   removed, uploadVars>>

\* the image does not decode: loadImage sets no onerror, the promise never settles
RunImageError(r) ==
    /\ alert = "none"
    /\ runs[r].pc = "loadImage"
    /\ runs' = [runs EXCEPT ![r] = PendingRun]
    /\ UNCHANGED <<modelVars, registeredUsers, lastResults, status, usersDom,
                   resultsDom, reg, alert, apiVars, eventPhotos, matchVars,
                   removed, uploadVars>>

AbortedMut(run) ==
    IF run.i < Len(run.files)
    THEN [run EXCEPT !.pc = "loadImage", !.i = run.i + 1]
    ELSE IdleRun

\* the throw leaves the for loop: the call is over, its results are dropped
Aborted(run) == IdleRun

\* the detection chain rejects: the catch block shows the error banner
RunDetectThrows(r) ==
    /\ alert = "none"
    /\ runs[r].pc = "detect"
    /\ runs' = [runs EXCEPT ![r] = Aborted(runs[r])]
    /\ status' = "processError"
    /\ UNCHANGED <<modelVars, registeredUsers, lastResults, usersDom, resultsDom, reg,
                   alert, apiVars, eventPhotos, matchVars, removed, uploadVars>>

OwnResultsMut(rs, r) == rs[1].results

\* the results object of call r: a local of the call, shared with no other call
OwnResults(rs, r) == rs[r].results

\* the detection chain resolves with the faces of photo i: processPhoto
\* classifies them and returns, the photo is organized, then the next photo is
\* started, or displayResults and the success banner end the run
RunDetected(r) ==
    /\ alert = "none"
    /\ runs[r].pc = "detect"
    /\ netsLoaded = NumNets
    /\ LET run == runs[r]
           photoResult == processPhoto(PhotoFaces(run.files[run.i]), registeredUsers)
           results == Organize([run EXCEPT !.results = OwnResults(runs, r)],
                               photoResult)
       IN  IF run.i < Len(run.files)
           THEN /\ runs' = [runs EXCEPT ![r] =
                               [run EXCEPT !.pc = "loadImage", !.i = run.i + 1,
                                           !.results = results]]
                /\ status' = "processingPhoto"
                /\ UNCHANGED <<lastResults, resultsDom>>
           ELSE /\ runs' = [runs EXCEPT ![r] = IdleRun]
                /\ resultsDom' = displayResults(results, registeredUsers)
                /\ lastResults' = <<results>>
                /\ status' = "processed"
    /\ UNCHANGED <<modelVars, registeredUsers, usersDom, reg, alert, apiVars,
                   eventPhotos, matchVars, removed, uploadVars>>

\* ------------------------------------------------------------ loadEventUsers
\* the global setEventId(): the prompt's answer is stored and confirmed
SetEventId(eventId) ==
    /\ alert = "none"
    /\ currentEventId' = eventId
    /\ status' = "eventIdSet"
    /\ UNCHANGED <<modelVars, registeredUsers, lastResults, usersDom, resultsDom, reg,
                   runs, alert, load, eventPhotos, matchVars, removed, uploadVars>>

\* "for (const user of users)": users without a profilePhoto are passed over
RECURSIVE SkipNoPhoto(_)
SkipNoPhoto(users) ==
    IF Len(users) > 0 /\ ~Head(users).profilePhoto
    THEN SkipNoPhoto(Tail(users))
    ELSE users

\* the loop goes on with the users left: the next photo is loaded, or the loop
\* is over and the registry is rendered under the success banner
LoadContinue(users) ==
    LET left == SkipNoPhoto(users)
    IN  IF Len(left) > 0
        THEN /\ load' = [pc |-> "loadImage", users |-> left]
             /\ UNCHANGED <<usersDom, status>>
        ELSE /\ load' = IdleLoad
             /\ usersDom' = displayRegisteredUsers(registeredUsers')
             /\ status' = "usersLoaded"

\* the call: the guard on api and currentEventId, then getEventUsers is awaited
\* (this.api is set by the constructor; no guard on isModelLoaded)
loadEventUsersCall ==
    /\ alert = "none"
    /\ load.pc = "idle"
    /\ IF currentEventId = 0
       THEN UNCHANGED <<load, status>>
       ELSE /\ load' = [pc |-> "fetch", users |-> <<>>]
            /\ status' = "loadingUsers"
    /\ UNCHANGED <<modelVars, registeredUsers, lastResults, usersDom, resultsDom, reg,
                   runs, alert, currentEventId, eventPhotos, matchVars, removed,
                   uploadVars>>

\* getEventUsers resolves with the server's list
LoadFetched(users) ==
    /\ alert = "none"
    /\ load.pc = "fetch"
    /\ UNCHANGED registeredUsers
    /\ LoadContinue(users)
    /\ UNCHANGED <<modelVars, lastResults, resultsDom, reg, runs, alert,
                   currentEventId, eventPhotos, matchVars, removed, uploadVars>>

\* getEventUsers, loadImageFromUrl or the detection chain rejects: the catch
\* block shows the error banner; the registry is not rendered
LoadThrows ==
    /\ alert = "none"
    /\ load.pc \in {"fetch", "loadImage", "detect"}
    /\ load' = IdleLoad
    /\ status' = "usersError"
    /\ UNCHANGED <<modelVars, registeredUsers, lastResults, usersDom, resultsDom, reg,
                   runs, alert, currentEventId, eventPhotos, matchVars, removed,
                   uploadVars>>

\* img.onload: loadImageFromUrl resolves and detectSingleFace is called
LoadImageLoaded ==
    /\ alert = "none"
    /\ load.pc = "loadImage"
    /\ load' = [load EXCEPT !.pc = "detect"]
    /\ UNCHANGED <<modelVars, registeredUsers, lastResults, status, usersDom,
                   resultsDom, reg, runs, alert, currentEventId, eventPhotos,
                   matchVars, removed, uploadVars>>

\* the detection chain resolves for the first user left: with a face the user
\* is stored under the server's id; then the loop goes on
LoadDetected(found) ==
    /\ alert = "none"
    /\ load.pc = "detect"
    /\ netsLoaded = NumNets
    /\ LET user == Head(load.users)
           face == IF found THEN FaceOf(user.name) ELSE NoFace
       IN  /\ registeredUsers' =
                 IF face = NoFace THEN registeredUsers
                 ELSE MapSet(registeredUsers,
                          [id |-> user.id, name |-> user.name, descriptor |-> face,
                           photo |-> face])
           /\ LoadContinue(Tail(load.users))
    /\ UNCHANGED <<modelVars, lastResults, resultsDom, reg, runs, alert,
                   currentEventId, eventPhotos, matchVars, removed, uploadVars>>

\* ------------------------------------------------------------ getResultsForAPI
\* Map.prototype.get: the entry stored under id, for an id of the registry
MapGet(users, id) == users[CHOOSE i \in 1..Len(users) : users[i].id = id]

\* getResultsForAPI: null without results; a TypeError when a userPhotos key is
\* no longer registered (registeredUsers.get(userId) is undefined); else the
\* results with each user's name looked up
getResultsForAPI(last, users) ==
    IF last = <<>> THEN [outcome |-> "null", userNames |-> <<>>]
    ELSE IF \E e \in Range(last[1].userPhotos) : e.userId \notin Ids(users)
    THEN [outcome |-> "throws", userNames |-> <<>>]
    ELSE [outcome |-> "value",
          userNames |-> [n \in 1..Len(last[1].userPhotos) |->
                            MapGet(users, last[1].userPhotos[n].userId).name]]

\* ------------------------------------------------------------ uploadToSocialApp
ApiCall(api, userId, photo) == [api |-> api, userId |-> userId, photo |-> photo]

\* the (userId, photo) pairs of the two nested loops over userPhotos, in order
RECURSIVE UploadPairs(_)
UploadPairs(userPhotos) ==
    IF userPhotos = <<>> THEN <<>>
    ELSE [n \in 1..Len(Head(userPhotos).photos) |->
             [userId |-> Head(userPhotos).userId,
              photo |-> Head(userPhotos).photos[n].photo]]
         \o UploadPairs(Tail(userPhotos))

\* the guard of uploadToSocialApp (this.api is set by the constructor)
UploadGuard(eventId, last) == eventId # 0 /\ last # <<>>

\* the order of the four parts of the try block
StageAfter(stage) ==
    CASE stage = "addPhoto" -> "organizer"
      [] stage = "organizer" -> "unrecognized"
      [] stage = "unrecognized" -> "results"
      [] OTHER -> "done"

\* the try block from the given part on, up to the next await: the call that is
\* issued, or the end of the block ("done"), or the TypeError of
\* getResultsForAPI ("threw")
RECURSIVE UploadFrom(_, _, _, _)
UploadFrom(stage, todo, last, users) ==
    CASE stage = "addPhoto" ->
            IF todo # <<>>
            THEN [pc |-> "addPhoto", todo |-> Tail(todo),
                  calls |-> <<ApiCall("addPhotoToUser", Head(todo).userId,
                                      Head(todo).photo)>>]
            ELSE UploadFrom(StageAfter(stage), <<>>, last, users)
      [] stage = "organizer" ->
            IF Len(last[1].organizerPhotos) > 0
            THEN [pc |-> "organizer", todo |-> <<>>,
                  calls |-> <<ApiCall("createOrganizerFolder", NoUser, <<>>)>>]
            ELSE UploadFrom(StageAfter(stage), <<>>, last, users)
      [] stage = "unrecognized" ->
            IF Len(last[1].unrecognizedFaces) > 0
            THEN [pc |-> "unrecognized", todo |-> <<>>,
                  calls |-> <<ApiCall("submitUnrecognizedFaces", NoUser, <<>>)>>]
            ELSE UploadFrom(StageAfter(stage), <<>>, last, users)
      [] stage = "results" ->
            IF getResultsForAPI(last, users).outcome = "throws"
            THEN [pc |-> "threw", todo |-> <<>>, calls |-> <<>>]
            ELSE [pc |-> "results", todo |-> <<>>,
                  calls |-> <<ApiCall("uploadEventResults", NoUser, <<>>)>>]
      [] OTHER -> [pc |-> "done", todo |-> <<>>, calls |-> <<>>]

\* the call goes on from the given part: the next API call is issued and
\* awaited, or the call ends under the success banner, or under the error
\* banner of the catch block; while it goes on the banner is the given one
UploadContinue(stage, todo, issued, banner) ==
    LET next == UploadFrom(stage, todo, lastResults, registeredUsers)
    IN  /\ apiCalls' = issued \o next.calls
        /\ IF next.pc = "done"
           THEN upload' = IdleUpload /\ status' = "uploaded"
           ELSE IF next.pc = "threw"
           THEN upload' = IdleUpload /\ status' = "uploadError"
           ELSE upload' = [pc |-> next.pc, todo |-> next.todo] /\ status' = banner

\* the click: the guard, the banner, then the first API call
uploadToSocialAppCall ==
    /\ alert = "none"
    /\ upload.pc = "idle"
    /\ IF ~UploadGuard(currentEventId, lastResults)
       THEN /\ alert' = "uploadNotReady"
            /\ UNCHANGED <<upload, apiCalls, status>>
       ELSE UploadContinue("addPhoto", UploadPairs(lastResults[1].userPhotos), <<>>,
                           "uploading")
    /\ UNCHANGED <<modelVars, registeredUsers, lastResults, usersDom, resultsDom, reg,
                   runs, apiVars, eventPhotos, matchVars, removed>>
    /\ (UploadGuard(currentEventId, lastResults) => UNCHANGED alert)

\* the API call in flight resolves: the try block goes on
UploadResolved ==
    /\ alert = "none"
    /\ upload.pc \in {"addPhoto", "organizer", "unrecognized", "results"}
    /\ UploadContinue(IF upload.pc = "addPhoto" THEN "addPhoto"
                      ELSE StageAfter(upload.pc), upload.todo, apiCalls, status)
    /\ UNCHANGED <<modelVars, registeredUsers, lastResults, usersDom, resultsDom, reg,
                   runs, alert, apiVars, eventPhotos, matchVars, removed>>

\* the API call in flight rejects: the catch block shows the error banner
UploadRejected ==
    /\ alert = "none"
    /\ upload.pc \in {"addPhoto", "organizer", "unrecognized", "results"}
    /\ upload' = IdleUpload
    /\ status' = "uploadError"
    /\ UNCHANGED <<modelVars, registeredUsers, lastResults, usersDom, resultsDom, reg,
                   runs, alert, apiVars, eventPhotos, matchVars, removed, apiCalls>>

\* ------------------------------------------------------------ the program
RegisterStep ==
    \/ \E userName \in Names \cup {""}, hasFile \in BOOLEAN :
          RegisterUserCall(userName, hasFile)
    \/ RegImageLoaded
    \/ RegImageError
    \/ RegDetectThrows
    \/ \E face \in {FaceOf(reg.name), NoFace}, t \in Timestamps : RegDetected(face, t)

RemoveStep == \E userId \in Timestamps : removeUser(userId)

\* the steps the event loop takes for a call once its promise has settled
RunProgress(r) ==
    \/ RunImageLoaded(r)
    \/ RunDetectThrows(r)
    \/ RunDetected(r)

RunStep(slots, selections) ==
    \/ \E r \in slots, files \in selections : processEventPhotosCall(r, files)
    \/ \E r \in slots : RunImageError(r)
    \/ \E r \in slots : RunProgress(r)

LoadUsersStep ==
    \/ SetEventId(1)
    \/ loadEventUsersCall
    \/ \E users \in ApiAnswers : LoadFetched(users)
    \/ LoadThrows
    \/ LoadImageLoaded
    \/ \E found \in BOOLEAN : LoadDetected(found)

\* the page without the API integration, one processEventPhotos call at a time
Next ==
    \/ DismissAlert
    \/ LoadNet
    \/ LoadNetFails
    \/ RegisterStep
    \/ RemoveStep
    \/ RunStep({1}, Selections)

Spec == Init /\ [][Next]_vars

\* one selection processed again and again under one registry
BatchRegistries ==
    {[i \in 1..Len(s) |-> [id |-> s[i].id, name |-> s[i].name,
                           descriptor |-> FaceOf(s[i].name),
                           photo |-> FaceOf(s[i].name)]] :
        s \in {q \in UNION {[1..n -> [id : Timestamps, name : Names]] : n \in 1..MaxNow} :
                  \A i, j \in 1..Len(q) : i # j => q[i].id # q[j].id}}

BatchInit ==
    /\ netsLoaded = NumNets
    /\ initPc = "done"
    /\ isModelLoaded = TRUE
    /\ registeredUsers \in BatchRegistries
    /\ lastResults = <<>>
    /\ status = "registered"
    /\ usersDom = displayRegisteredUsers(registeredUsers)
    /\ resultsDom = <<>>
    /\ reg = IdleReg
    /\ runs = [r \in RunIds |-> IdleRun]
    /\ eventPhotos \in Selections \ {<<>>}
    /\ alert = "none"
    /\ currentEventId = 0
    /\ load = IdleLoad
    /\ query = NoFace
    /\ match = NoMatch
    /\ removed = {}
    /\ upload = IdleUpload
    /\ apiCalls = <<>>

NextBatch == RunStep({1}, {eventPhotos})

SpecBatch == BatchInit /\ [][NextBatch]_vars

\* the event loop runs a continuation whose promise has settled
FairBatch == SpecBatch /\ SF_vars(RunProgress(1))

\* the Process button clicked again while a call is in flight: two calls
\* overlap at their await points
NextOverlap ==
    \/ DismissAlert
    \/ RunStep(RunIds, Selections)

SpecOverlap == BatchInit /\ [][NextOverlap]_vars

\* the page with the API integration, on selections of one photo
NextAPI ==
    \/ DismissAlert
    \/ LoadNet
    \/ LoadNetFails
    \/ RegisterStep
    \/ RemoveStep
    \/ RunStep({1}, {s \in Selections : Len(s) <= 1})
    \/ LoadUsersStep

SpecAPI == Init /\ [][NextAPI]_vars

\* the users of an event as the server lists them: loaded, removed, loaded again
NextLoad ==
    \/ LoadNet
    \/ LoadNetFails
    \/ RemoveStep
    \/ LoadUsersStep

SpecLoad == Init /\ [][NextLoad]_vars

UploadStep ==
    \/ uploadToSocialAppCall
    \/ UploadResolved
    \/ UploadRejected

\* one selection processed and uploaded under a registry users are removed from
NextUpload ==
    \/ DismissAlert
    \/ SetEventId(1)
    \/ RemoveStep
    \/ RunStep({1}, {eventPhotos})
    \/ UploadStep

SpecUpload == BatchInit /\ [][NextUpload]_vars

\* ------------------------------------------------------------ the matcher alone
\* the registries findBestMatch can be handed: up to MaxUsers users under
\* distinct ids, in any insertion order
MatchUser == [id : 1..MaxUsers, name : {"ann"}, descriptor : Descriptors]

MatchRegistries ==
    {[i \in 1..Len(s) |-> [id |-> s[i].id, name |-> s[i].name,
                           descriptor |-> s[i].descriptor, photo |-> s[i].descriptor]] :
        s \in {q \in UNION {[1..n -> MatchUser] : n \in 0..MaxUsers} :
                  \A i, j \in 1..Len(q) : i # j => q[i].id # q[j].id}}

MatchInit ==
    /\ netsLoaded = NumNets
    /\ initPc = "done"
    /\ isModelLoaded = TRUE
    /\ registeredUsers \in MatchRegistries
    /\ lastResults = <<>>
    /\ status = IF Len(registeredUsers) = 0 THEN "modelsLoaded" ELSE "registered"
    /\ usersDom = displayRegisteredUsers(registeredUsers)
    /\ resultsDom = <<>>
    /\ reg = IdleReg
    /\ runs = [r \in RunIds |-> IdleRun]
    /\ eventPhotos = <<>>
    /\ alert = "none"
    /\ currentEventId = 0
    /\ load = IdleLoad
    /\ query = NoFace
    /\ match = NoMatch
    /\ removed = {}
    /\ upload = IdleUpload
    /\ apiCalls = <<>>

\* findBestMatch(descriptor) on the registry as it is
MatchQuery(descriptor) ==
    /\ query' = descriptor
    /\ match' = findBestMatch(descriptor, registeredUsers)
    /\ UNCHANGED <<modelVars, registeredUsers, lastResults, status, usersDom,
                   resultsDom, reg, runs, eventPhotos, alert, apiVars, removed,
                   uploadVars>>

MatchNext == \E descriptor \in Queries : MatchQuery(descriptor)

SpecMatch == MatchInit /\ [][MatchNext]_vars

\* ====================================================================
\* Properties
\* ====================================================================
Dist(i) == euclideanDistance(query, registeredUsers[i].descriptor)

Called == query # NoFace

\* C1: for a non-empty registry, findBestMatch returns a registered user at the
\* minimum distance from the query, together with exactly that distance, also
\* when every registered user is at distance 1 or more.
C1_ReturnsNearestUser ==
    (Called /\ Len(registeredUsers) > 0) =>
        \E i \in 1..Len(registeredUsers) :
            /\ match.userId = registeredUsers[i].id
            /\ match.distance = Dist(i)
            /\ \A j \in 1..Len(registeredUsers) : Dist(i) <= Dist(j)

\* C2 as stated: matching a descriptor identical to the stored descriptor of
\* any registered user u yields distance 0 and u's id.
C2_AnyIdenticalUser ==
    Called =>
        \A i \in 1..Len(registeredUsers) :
            registeredUsers[i].descriptor = query =>
                match.distance = 0 /\ match.userId = registeredUsers[i].id

\* C2 as amended: matching a descriptor identical to a registered user's stored
\* descriptor yields distance 0 and the id of the first user, in insertion
\* order, whose descriptor is identical: u's id when no earlier user has it.
C2_FirstIdenticalUser ==
    Called =>
        \A i \in 1..Len(registeredUsers) :
            (/\ registeredUsers[i].descriptor = query
             /\ \A j \in 1..(i - 1) : registeredUsers[j].descriptor # query)
                => match.distance = 0 /\ match.userId = registeredUsers[i].id

\* a query identical to the second user's descriptor, not to the first's
C2_Witness ==
    /\ Called
    /\ Len(registeredUsers) >= 2
    /\ registeredUsers[2].descriptor = query
    /\ registeredUsers[1].descriptor # query
    /\ match.userId = registeredUsers[2].id
    /\ match.distance = 0

\* ------------------------------------------------------------ results, read back
\* the photo a RunDetected(r) step classifies, and the faces detected in it
PhotoOf(r) == <<runs[r].i, runs[r].files[runs[r].i]>>

FacesOf(r) == PhotoFaces(runs[r].files[runs[r].i])

\* the results object a RunDetected(r) step leaves: the call's local while
\* photos remain, this.lastResults when the call has finished
NewResults(r) ==
    IF runs[r].i < Len(runs[r].files) THEN runs'[r].results ELSE lastResults'[1]

\* the (user id, photo, confidence, face box) entries of a results object
Matches(results) ==
    UNION {{[userId |-> e.userId, photo |-> f.photo, confidence |-> f.confidence,
             faceBox |-> f.faceBox] : f \in Range(e.photos)} :
           e \in Range(results.userPhotos)}

AsUser(results, photo, k) ==
    \E m \in Matches(results) : m.photo = photo /\ m.faceBox = k

AsUnrecognized(results, photo, k) ==
    \E u \in Range(results.unrecognizedFaces) : u.photo = photo /\ u.box = k

CardIds(cards) == {cards[i].id : i \in 1..Len(cards)}

BlockIds(blocks) == {blocks[i].userId : i \in 1..Len(blocks)}

\* C3: a face of a processed photo is filed under a user only when its
\* best-match distance is strictly below 0.6; at a distance of exactly 0.6 or
\* more it is filed as unrecognized and under no user.
C3_StrictThreshold ==
    [][\A r \in RunIds : RunDetected(r) =>
          \A k \in 1..Len(FacesOf(r)) :
              LET d == findBestMatch(FacesOf(r)[k], registeredUsers).distance
              IN  /\ AsUser(NewResults(r), PhotoOf(r), k) => d < Threshold
                  /\ d >= Threshold =>
                        /\ AsUnrecognized(NewResults(r), PhotoOf(r), k)
                        /\ ~AsUser(NewResults(r), PhotoOf(r), k)]_vars

\* a finished run in which face 1 of a photo matched at distance 0 and face 2
\* of the same photo, at distance exactly 0.6 from every user, did not
C3_Witness ==
    /\ lastResults # <<>>
    /\ \E m \in Matches(lastResults[1]) :
          /\ m.faceBox = 1
          /\ m.confidence = 100
          /\ AsUnrecognized(lastResults[1], m.photo, 2)
          /\ ~AsUser(lastResults[1], m.photo, 2)

\* C4: when the registry is empty at the moment the faces of a photo are
\* matched, findBestMatch returns the sentinel distance with no user id for
\* each of them, no face is filed under a user and every face is filed as
\* unrecognized.
C4_EmptyRegistryUnrecognized ==
    [][\A r \in RunIds : (RunDetected(r) /\ Len(registeredUsers) = 0) =>
          /\ \A k \in 1..Len(FacesOf(r)) :
                /\ findBestMatch(FacesOf(r)[k], registeredUsers).userId = NoUser
                /\ findBestMatch(FacesOf(r)[k], registeredUsers).distance = Sentinel
                /\ AsUnrecognized(NewResults(r), PhotoOf(r), k)
          /\ NewResults(r).userPhotos = runs[r].results.userPhotos]_vars

\* a finished run that filed face 1 of a photo (descriptor 0, within 0.6 of
\* every user who can register) as unrecognized: the registry had been emptied
\* by removeUser while the run was in flight
C4_Witness ==
    /\ Len(registeredUsers) = 0
    /\ removed # {}
    /\ lastResults # <<>>
    /\ \E u \in Range(lastResults[1].unrecognizedFaces) : u.box = 1

\* C5 as stated: once removeUser(id) has been called, id is never in the
\* registry again, no later match carries it, and nothing rendered later by
\* displayRegisteredUsers or displayResults shows it.
C5_RemovedForGood ==
    [][\A id \in removed' :
          /\ id \notin Ids(registeredUsers')
          /\ usersDom' # usersDom => id \notin CardIds(usersDom')
          /\ resultsDom' # resultsDom => id \notin BlockIds(resultsDom')
          /\ \A r \in RunIds : RunDetected(r) =>
                \A m \in Matches(NewResults(r)) :
                    m.photo = PhotoOf(r) => m.userId # id]_vars

\* a step in which registerUser or loadEventUsers stores a user under id
StoresAgain(id) ==
    \/ \E name \in Names : RegDetected(FaceOf(name), id)
    \/ \E found \in BOOLEAN : LoadDetected(found) /\ Head(load.users).id = id

\* C5 as amended: removeUser(id) leaves id out of the registry and of the
\* rendered cards; an id that is not in the registry enters it only when
\* registerUser or loadEventUsers stores a user under it again; every match
\* carries the id of a user registered at that moment; whatever
\* displayRegisteredUsers or displayResults renders shows registered users only.
C5_RemovedUntilStoredAgain ==
    [][/\ \A id \in Timestamps : removeUser(id) =>
             /\ id \notin Ids(registeredUsers')
             /\ id \notin CardIds(usersDom')
       /\ \A id \in Timestamps :
             (id \notin Ids(registeredUsers) /\ id \in Ids(registeredUsers'))
                 => StoresAgain(id)
       /\ \A r \in RunIds : RunDetected(r) =>
             \A m \in Matches(NewResults(r)) :
                 m.photo = PhotoOf(r) => m.userId \in Ids(registeredUsers)
       /\ usersDom' # usersDom => CardIds(usersDom') \subseteq Ids(registeredUsers')
       /\ resultsDom' # resultsDom =>
             BlockIds(resultsDom') \subseteq Ids(registeredUsers')]_vars

\* a user matched in an early photo and removed while the run was in flight:
\* the finished run's results hold the id, the rendered blocks (there are
\* some, for another user) and the registry do not
C5_Witness ==
    \E id \in removed :
        /\ id \notin Ids(registeredUsers)
        /\ lastResults # <<>>
        /\ \E m \in Matches(lastResults[1]) : m.userId = id
        /\ resultsDom # <<>>
        /\ id \notin BlockIds(resultsDom)
        /\ id \notin CardIds(usersDom)

Outcome(results) ==
    [userPhotos |-> results.userPhotos,
     unrecognizedFaces |-> results.unrecognizedFaces]

\* C7: with the registry and the selected batch unchanged, a run that finishes
\* after an earlier one leaves the same classification outcome: the same user
\* ids with the same photos and confidences, and the same unrecognized faces.
C7_SameOutcomeAgain ==
    [][lastResults # <<>> => Outcome(lastResults'[1]) = Outcome(lastResults[1])]_vars

\* a run has finished with a recognized face and a second run over the same
\* batch has reached the detection of its last photo
C7_Witness ==
    /\ lastResults # <<>>
    /\ lastResults[1].userPhotos # <<>>
    /\ runs[1].pc = "detect"
    /\ runs[1].i = Len(runs[1].files)
    /\ runs[1].files = eventPhotos

\* C8: no operation is at a detection call (detectSingleFace, detectAllFaces)
\* while isModelLoaded is false.
C8_NoDetectionBeforeLoaded ==
    (\/ reg.pc = "detect"
     \/ \E r \in RunIds : runs[r].pc = "detect"
     \/ load.pc = "detect") => isModelLoaded

\* C9: once initializeFaceAPI has failed it stays failed and isModelLoaded
\* stays false; a registerUser or processEventPhotos call made then ends in an
\* alert, with no call left in flight, no detection call, and the registry and
\* the last results as they were.
C9_FailureIsTerminal ==
    [][initPc = "failed" =>
          /\ initPc' = "failed"
          /\ ~isModelLoaded /\ ~isModelLoaded'
          /\ reg'.pc \notin {"loadImage", "detect"}
          /\ \A r \in RunIds : runs'[r].pc \notin {"loadImage", "detect"}
          /\ ((\/ \E userName \in Names \cup {""}, hasFile \in BOOLEAN :
                     RegisterUserCall(userName, hasFile)
               \/ \E r \in RunIds, files \in Selections :
                     processEventPhotosCall(r, files))
                 => /\ alert' # "none"
                    /\ reg' = reg /\ runs' = runs
                    /\ registeredUsers' = registeredUsers
                    /\ lastResults' = lastResults)]_vars

\* the models failed to load and a later call was rejected with the alert
C9_Witness == initPc = "failed" /\ alert = "modelsLoading"

\* C10: a batch that has passed its guards and shows "Processing..." goes on
\* to show the success status or the error status.
C10_BatchFinishes ==
    (status = "processingPhoto") ~> (status \in {"processed", "processError"})

\* C11: when the processing of photo i throws, the call is over (no later
\* photo is loaded or classified), displayResults does not run (the rendered
\* results and lastResults stay as they were) and the banner is the error one.
C11_ThrowAbortsBatch ==
    [][\A r \in RunIds : (runs[r].pc = "detect" /\ RunDetectThrows(r)) =>
          /\ runs'[r].pc = "idle"
          /\ lastResults' = lastResults
          /\ resultsDom' = resultsDom
          /\ status' = "processError"]_vars

\* a run over two photos threw after an earlier run had finished: the error
\* banner is up, the run is over and the earlier results are still there
C11_Witness ==
    /\ status = "processError"
    /\ Len(eventPhotos) = 2
    /\ runs[1].pc = "idle"
    /\ lastResults # <<>>
    /\ Len(lastResults[1].organizerPhotos) = 1

\* ------------------------------------------------------------ counting entries
\* how many entries of a list are entries of the photo
OfPhoto(entries, photo) ==
    Cardinality({n \in 1..Len(entries) : entries[n].photo = photo})

\* how many entries of results.userPhotos, over all users, are of the photo
RECURSIVE UserEntries(_, _)
UserEntries(userPhotos, photo) ==
    IF userPhotos = <<>> THEN 0
    ELSE OfPhoto(Head(userPhotos).photos, photo) + UserEntries(Tail(userPhotos), photo)

\* the photos of a run's files
PhotosOf(files) == {<<i, files[i]>> : i \in 1..Len(files)}

\* C12: when a run ends in success, lastResults holds entries of that run's
\* photos only, and of each of them exactly one entry per detected face and
\* one organizer entry if it has a face: nothing of an earlier run is left.
C12_OnlyThisRun ==
    [][\A r \in RunIds : (RunDetected(r) /\ runs[r].i = Len(runs[r].files)) =>
          LET files == runs[r].files
              res == lastResults'[1]
          IN  /\ \A m \in Matches(res) : m.photo \in PhotosOf(files)
              /\ \A u \in Range(res.unrecognizedFaces) : u.photo \in PhotosOf(files)
              /\ \A o \in Range(res.organizerPhotos) : o.photo \in PhotosOf(files)
              /\ \A photo \in PhotosOf(files) :
                    /\ UserEntries(res.userPhotos, photo)
                           + OfPhoto(res.unrecognizedFaces, photo)
                         = Len(PhotoFaces(photo[2]))
                    /\ OfPhoto(res.organizerPhotos, photo)
                         = IF Len(PhotoFaces(photo[2])) > 0 THEN 1 ELSE 0]_vars

\* an earlier run over one photo with faces has left its results, and a later
\* run over other files has reached the detection of its last photo
C12_Witness ==
    /\ lastResults # <<>>
    /\ lastResults[1].organizerPhotos = <<[photo |-> <<1, 2>>, totalFaces |-> 2]>>
    /\ runs[1].pc = "detect"
    /\ runs[1].files = <<1, 2>>
    /\ runs[1].i = 2

\* C13: an id enters the registry only when registerUser or loadEventUsers
\* stores it and leaves it only by removeUser, and while an id stays in the
\* registry the name, descriptor and photo stored under it do not change.
C13_EntriesNeverChange ==
    [][/\ \A id \in Timestamps :
             (id \notin Ids(registeredUsers) /\ id \in Ids(registeredUsers'))
                 => StoresAgain(id)
       /\ \A id \in Timestamps :
             (id \in Ids(registeredUsers) /\ id \notin Ids(registeredUsers'))
                 => removeUser(id)
       /\ \A i \in 1..Len(registeredUsers), j \in 1..Len(registeredUsers') :
             registeredUsers'[j].id = registeredUsers[i].id
                 => registeredUsers'[j] = registeredUsers[i]]_vars

\* C14: a failure inside registerUser, processEventPhotos, loadEventUsers or
\* uploadToSocialApp (an image that does not load, a detection or an API call
\* that rejects) ends the action with its alert or its error banner, never with
\* its success banner.
C14_FailuresAreSurfaced ==
    [][/\ (RegImageError \/ RegDetectThrows) => alert' = "registerError"
       /\ \A r \in RunIds :
             (RunImageError(r) \/ RunDetectThrows(r)) => status' = "processError"
       /\ LoadThrows => status' = "usersError"
       /\ UploadRejected => status' = "uploadError"]_vars

\* the users at the minimum distance from the query
Nearest == {i \in 1..Len(registeredUsers) :
               \A j \in 1..Len(registeredUsers) : Dist(i) <= Dist(j)}

\* C15: when several registered users are at the same minimum distance from
\* the query, findBestMatch returns the first of them in insertion order.
C15_FirstOfTies ==
    (Called /\ Cardinality(Nearest) > 1) =>
        \E i \in Nearest :
            /\ \A j \in Nearest : i <= j
            /\ match.userId = registeredUsers[i].id

\* the number of entries of results.userPhotos, over all users
RECURSIVE AllUserEntries(_)
AllUserEntries(userPhotos) ==
    IF userPhotos = <<>> THEN 0
    ELSE Len(Head(userPhotos).photos) + AllUserEntries(Tail(userPhotos))

\* the sum of totalFaces over results.organizerPhotos
RECURSIVE SumTotalFaces(_)
SumTotalFaces(organizerPhotos) ==
    IF organizerPhotos = <<>> THEN 0
    ELSE Head(organizerPhotos).totalFaces + SumTotalFaces(Tail(organizerPhotos))

\* C16: when a run ends in success, every detected face of every photo is
\* filed either under a user or as unrecognized, not both; each organizer
\* entry's totalFaces is the number of faces detected in its photo; and the
\* sum of totalFaces is the number of userPhotos entries plus the number of
\* unrecognizedFaces entries.
C16_EachFaceOnce ==
    [][\A r \in RunIds : (RunDetected(r) /\ runs[r].i = Len(runs[r].files)) =>
          LET files == runs[r].files
              res == lastResults'[1]
          IN  /\ \A photo \in PhotosOf(files) :
                    \A k \in 1..Len(PhotoFaces(photo[2])) :
                        AsUser(res, photo, k) <=> ~AsUnrecognized(res, photo, k)
              /\ \A o \in Range(res.organizerPhotos) :
                    o.totalFaces = Len(PhotoFaces(o.photo[2]))
              /\ SumTotalFaces(res.organizerPhotos)
                    = AllUserEntries(res.userPhotos) + Len(res.unrecognizedFaces)]_vars

\* a finished run over two photos with two faces each, with faces filed under
\* a user and faces filed as unrecognized
C16_Witness ==
    /\ lastResults # <<>>
    /\ Len(lastResults[1].organizerPhotos) = 2
    /\ SumTotalFaces(lastResults[1].organizerPhotos) = 4
    /\ AllUserEntries(lastResults[1].userPhotos) > 0
    /\ Len(lastResults[1].unrecognizedFaces) > 0


\* C17: every user id that keys lastResults.userPhotos is still registered,
\* so getResultsForAPI returns a value, and never throws, whenever lastResults
\* is set.
C17_ResultsUsersRegistered ==
    lastResults # <<>> =>
        /\ \A e \in Range(lastResults[1].userPhotos) : e.userId \in Ids(registeredUsers)
        /\ getResultsForAPI(lastResults, registeredUsers).outcome = "value"


\* the position of an API call in the order of the try block
Rank(api) ==
    CASE api = "addPhotoToUser" -> 1
      [] api = "createOrganizerFolder" -> 2
      [] api = "submitUnrecognizedFaces" -> 3
      [] OTHER -> 4

\* the addPhotoToUser calls for the given (userId, photo) pairs, in order
AddPhotoCalls(pairs) ==
    [n \in 1..Len(pairs) |-> ApiCall("addPhotoToUser", pairs[n].userId, pairs[n].photo)]

IsAddPhoto(call) == call.api = "addPhotoToUser"

\* a step of uploadToSocialApp past its guard that no failing API call ends
UploadGoesOn ==
    \/ uploadToSocialAppCall /\ UploadGuard(currentEventId, lastResults)
    \/ UploadResolved

\* the calls issued before the step, by the call of uploadToSocialApp the step
\* belongs to
IssuedBefore == IF UploadResolved THEN apiCalls ELSE <<>>

\* C18: uploadToSocialApp makes no API call unless the event id and lastResults
\* are set; its calls are addPhotoToUser for every (user, photo) pair of
\* lastResults.userPhotos, then createOrganizerFolder only if organizerPhotos
\* is non-empty, then submitUnrecognizedFaces only if unrecognizedFaces is
\* non-empty, then uploadEventResults last; a failing call stops all later
\* calls and shows the error banner; a call of uploadToSocialApp in which no
\* API call fails ends with uploadEventResults issued and the success banner,
\* and the success banner is shown in no other case.
C18_UploadProtocol ==
    [][/\ (uploadToSocialAppCall /\ ~UploadGuard(currentEventId, lastResults)) =>
              apiCalls' = apiCalls /\ upload' = upload /\ status' = status
       /\ UploadRejected =>
              apiCalls' = apiCalls /\ upload'.pc = "idle" /\ status' = "uploadError"
       /\ UploadGoesOn =>
              /\ Len(apiCalls') <= Len(IssuedBefore) + 1
              /\ SubSeq(apiCalls', 1, Len(IssuedBefore)) = IssuedBefore
              /\ \A m, n \in 1..Len(apiCalls') :
                    m < n => /\ Rank(apiCalls'[m].api) <= Rank(apiCalls'[n].api)
                             /\ Rank(apiCalls'[m].api) < Rank(apiCalls'[n].api)
                                   \/ IsAddPhoto(apiCalls'[n])
              /\ SelectSeq(apiCalls', IsAddPhoto) \o AddPhotoCalls(upload'.todo)
                    = IF UploadResolved
                      THEN SelectSeq(apiCalls, IsAddPhoto) \o AddPhotoCalls(upload.todo)
                      ELSE AddPhotoCalls(UploadPairs(lastResults[1].userPhotos))
              /\ \A n \in Len(IssuedBefore) + 1 .. Len(apiCalls') :
                    /\ apiCalls'[n].api = "createOrganizerFolder" =>
                          Len(lastResults[1].organizerPhotos) > 0
                    /\ apiCalls'[n].api = "submitUnrecognizedFaces" =>
                          Len(lastResults[1].unrecognizedFaces) > 0
              /\ upload'.pc = "idle" =>
                    /\ apiCalls' # <<>>
                    /\ apiCalls'[Len(apiCalls')].api = "uploadEventResults"
                    /\ upload'.todo = <<>>
                    /\ status' = "uploaded"
              /\ status' = "uploaded" => upload'.pc = "idle"]_vars


\* what a rejected action must leave alone: the registry and its rendering,
\* lastResults and its rendering, the banner, and the calls in flight
Untouched ==
    /\ registeredUsers' = registeredUsers
    /\ usersDom' = usersDom
    /\ lastResults' = lastResults
    /\ resultsDom' = resultsDom
    /\ status' = status
    /\ reg' = reg
    /\ runs' = runs

\* C19: a rejected action changes no state. registerUser leaves the registry
\* as it is when the name is empty, no photo is selected, the models are not
\* loaded, no face is detected or the detection throws; processEventPhotos
\* leaves lastResults and the registry as they are when no files are
\* selected, the models are not loaded or the registry is empty. Nothing but
\* the alert opens, and a call that was in flight ends.
C19_RejectedChangesNothing ==
    [][/\ \A userName \in Names \cup {""}, hasFile \in BOOLEAN :
             (/\ userName = "" \/ ~hasFile \/ ~isModelLoaded
              /\ RegisterUserCall(userName, hasFile)) =>
                 Untouched /\ alert' # "none"
       /\ (RegDetectThrows \/ \E t \in Timestamps : RegDetected(NoFace, t)) =>
             /\ registeredUsers' = registeredUsers
             /\ usersDom' = usersDom
             /\ lastResults' = lastResults
             /\ resultsDom' = resultsDom
             /\ status' = status
             /\ runs' = runs
             /\ reg' = IdleReg
             /\ alert' # "none"
       /\ \A r \in RunIds, files \in Selections :
             (/\ Len(files) = 0 \/ ~isModelLoaded \/ Len(registeredUsers) = 0
              /\ processEventPhotosCall(r, files)) =>
                 Untouched /\ alert' # "none"]_vars

\* processEventPhotos has been rejected for an empty registry while the
\* results of an earlier run are kept
C19_Witness ==
    /\ alert = "registerFirst"
    /\ registeredUsers = <<>>
    /\ lastResults # <<>>
    /\ resultsDom # <<>>


\* the calls in flight other than r
OtherRuns(r) == {q \in RunIds \ {r} : runs[q].pc \in {"loadImage", "detect"}}

\* the results hold entries of the given files only, and of each of them one
\* entry per detected face and one organizer entry if it has a face
CompleteFor(res, files, upTo) ==
    /\ \A e \in Range(res.userPhotos) :
          \A n \in 1..Len(e.photos) : e.photos[n].photo \in PhotosOf(SubSeq(files, 1, upTo))
    /\ \A n \in 1..Len(res.unrecognizedFaces) :
          res.unrecognizedFaces[n].photo \in PhotosOf(SubSeq(files, 1, upTo))
    /\ \A n \in 1..Len(res.organizerPhotos) :
          res.organizerPhotos[n].photo \in PhotosOf(SubSeq(files, 1, upTo))
    /\ \A photo \in PhotosOf(SubSeq(files, 1, upTo)) :
          /\ UserEntries(res.userPhotos, photo) + OfPhoto(res.unrecognizedFaces, photo)
                = Len(PhotoFaces(photo[2]))
          /\ OfPhoto(res.organizerPhotos, photo)
                = IF Len(PhotoFaces(photo[2])) > 0 THEN 1 ELSE 0

\* C20: when calls of processEventPhotos overlap, each accumulates into its
\* own results: a step of one call leaves the results of the other alone, the
\* results a call has accumulated hold its own photos only, and lastResults
\* changes only when a call ends in success, to the complete results of that
\* call.
C20_RunsDoNotMix ==
    [][\A r \in RunIds : (RunDetected(r) /\ OtherRuns(r) # {}) =>
          /\ \A q \in OtherRuns(r) : runs'[q] = runs[q]
          /\ IF runs[r].i < Len(runs[r].files)
             THEN /\ lastResults' = lastResults
                  /\ resultsDom' = resultsDom
                  /\ CompleteFor(runs'[r].results, runs[r].files, runs[r].i)
             ELSE /\ lastResults' # <<>>
                  /\ CompleteFor(lastResults'[1], runs[r].files, Len(runs[r].files))
                  /\ resultsDom' = displayResults(lastResults'[1], registeredUsers)]_vars

\* two calls in flight on different selections, each past its first photo with
\* entries accumulated
C20_Witness ==
    /\ runs[1].pc = "detect" /\ runs[1].i = 2
    /\ runs[2].pc = "detect" /\ runs[2].i = 2
    /\ runs[1].files # runs[2].files
    /\ runs[1].results.organizerPhotos # <<>>
    /\ runs[2].results.organizerPhotos # <<>>

=============================================================================
